---- MODULE Spec2Model ----
(***************************************************************************)
(* EditorCore (src/Editor/EditorCore.jsx): the command handlers of the     *)
(* Wick editor.  Every handler reads or writes the editor's current        *)
(* project, calls the engine, and then shows toasts, opens modals and      *)
(* requests projectDidChange.  A handler run is one action; what it did is *)
(* left in `op` (its name), `input` (its argument), `effects` (the calls   *)
(* it made on the UI and on the outside modules, in order) and `result` /  *)
(* `ret` (what it returned).  Engine and delegate outcomes are inputs.     *)
(***************************************************************************)
EXTENDS Integers, Sequences, FiniteSets, Bags, TLC

VARIABLES
  project,        \* this.project: the id of the editor's current project
  created,        \* how many project objects exist (ids 1..created)
  settings,       \* settings[p]: name, width, height, backgroundColor, framerate of project p
  numSelected,    \* numSelected[p]: project p's selection.numObjects
  selAttr,        \* this.project.selection[...]: attribute name -> value
  activeTool,     \* activeTool[p]: project p's activeTool (by name)
  lastUsedTool,   \* this.lastUsedTool
  toolBefore,     \* history: the tool in use just before the active tool was activated
  expectedTool,   \* history: toolBefore as it was when activateLastTool was called
  toolChanged,    \* history: some call has changed the tool
  fillColor,      \* project.toolSettings 'fillColor'
  eyedropperSet,  \* this._onEyedropperPickedColor has been assigned
  activeModalName,\* this.state.activeModalName ("null" when no modal is open)
  waitOverlay,    \* the wait overlay is showing
  errorHandlerOn, \* the projects whose onError carries the toast handler
  pending,        \* the callbacks handed to the engine and the delegates that have not fired (a bag)
  fired,          \* the callback that fired last, with what its closure captured
  urlParam,       \* the project parameter of window.location.search
  previewPlaying, \* this.state.previewPlaying
  now,            \* the time, in ticks of TickSeconds seconds
  timers,         \* the timers window.setTimeout has started and not yet run or cleared
  timersStarted,  \* how many timers requestAutosave has started (their ids are 1..timersStarted)
  autosaveTimeoutID, \* this._autosaveTimeoutID (0: undefined)
  lastRequest,    \* history: the time of the last requestAutosave (-1: none yet)
  autosaveList,   \* the list AutoSave.getAutosavesList called back with last
  burst,          \* history: autosave attempts since the current run of requests began
  op,             \* the handler or callback that ran last
  input,          \* its argument
  given,          \* the project handed to setupNewProject (0: none)
  effects,        \* the calls it made, in order
  newSettings,    \* the argument of updateProjectSettings
  result,         \* the value getSelectionAttribute returned
  ret             \* the value a handler returned ("true", "false", "undefined")

vars == <<project, created, settings, numSelected, selAttr, activeTool, lastUsedTool,
          toolBefore, expectedTool, toolChanged, fillColor, eyedropperSet,
          activeModalName, waitOverlay, errorHandlerOn, pending, fired, urlParam, op, input, given,
          effects, newSettings, result, ret, previewPlaying, now, timers, timersStarted,
          autosaveTimeoutID, lastRequest, burst, autosaveList>>

projVars == <<project, created, settings, numSelected, errorHandlerOn>>
toolVars == <<activeTool, lastUsedTool, toolBefore, expectedTool, toolChanged,
              fillColor, eyedropperSet>>
uiVars == <<activeModalName, waitOverlay>>
timerVars == <<now, timers, timersStarted, autosaveTimeoutID, lastRequest, burst>>
envVars == <<urlParam, previewPlaying, timerVars, autosaveList>>
asyncVars == <<pending, fired, envVars>>

\* ---------------------------------------------------------------- bounds
MaxArrLen == 2
MaxProjects == 2
MaxPending == 2
MaxKeys == 2
MaxLoads == 1

\* ---------------------------------------------------------------- values
\* A JavaScript value of a selection attribute: undefined, a plain value, or an array.
Undefined == [t |-> "undefined", v |-> <<>>]
Scalar(x) == [t |-> "value", v |-> <<x>>]
Array(s) == [t |-> "array", v |-> s]
Scalars == {1, 2}
Arrays == UNION {[1..n -> Scalars] : n \in 0..MaxArrLen}
Values == {Undefined} \cup {Scalar(x) : x \in Scalars} \cup {Array(s) : s \in Arrays}

\* The attributes the selection object has, and the names a caller may ask for.
ExistingAttrs == {"fillColor", "x"}
AttrNames == ExistingAttrs \cup {"noSuchAttribute"}

\* ---------------------------------------------------------------- effects
Call(c, a) == [call |-> c, arg |-> a, target |-> 0, skipHistory |-> FALSE]
CallOn(c, a, p) == [call |-> c, arg |-> a, target |-> p, skipHistory |-> FALSE]
Options(actionName, skip) == [actionName |-> actionName, skipHistory |-> skip]

\* this.projectDidChange(options): the request, and the history entry the editor
\* pushes for it unless options.skipHistory is set.
projectDidChange(options) ==
  <<[call |-> "projectDidChange", arg |-> options.actionName, target |-> 0,
     skipHistory |-> options.skipHistory]>>
  \o (IF options.skipHistory THEN <<>> ELSE <<Call("history.pushState", options.actionName)>>)

toast(text, type) == <<Call("toast", type)>>
updateToast(type) == <<Call("updateToast", type)>>

Count(effs, c) == Cardinality({i \in DOMAIN effs : effs[i].call = c})
Index(effs, c) == IF Count(effs, c) = 0 THEN 0
                  ELSE CHOOSE i \in DOMAIN effs :
                         /\ effs[i].call = c
                         /\ \A j \in DOMAIN effs : effs[j].call = c => i <= j

\* ---------------------------------------------------------------- selection
\* this.project.selection[attributeName]
ReadAttribute(sel, attributeName) ==
  IF attributeName \in DOMAIN sel THEN sel[attributeName] ELSE Undefined

getSelectionAttribute_lastWins(sel, attributeName) ==
  LET attribute == ReadAttribute(sel, attributeName) IN
  IF attribute.t = "array"
    THEN IF Len(attribute.v) = 0 THEN Undefined
         ELSE Scalar(attribute.v[Len(attribute.v)])
    ELSE attribute

getSelectionAttribute(sel, attributeName) ==
  LET attribute == ReadAttribute(sel, attributeName) IN
  IF attribute.t = "array"
    THEN IF Len(attribute.v) = 0 THEN Undefined
         ELSE IF Len(attribute.v) = 1 THEN Scalar(attribute.v[1])
         ELSE Scalar(attribute.v[1])
    ELSE attribute

\* What a handler run leaves behind: its name, its argument, its calls, its return value.
Ran(name, arg, effs, r) ==
  /\ op' = name
  /\ input' = arg
  /\ effects' = effs
  /\ ret' = r

\* ---------------------------------------------------------------- callbacks
\* A callback in flight: which call it was given to, the project that call was made
\* on, the name its closure captured, and whether the caller passed its own callback.
Callback(cb, p, name, has) == [cb |-> cb, p |-> p, name |-> name, hasCallback |-> has]
NoCallback == Callback("none", 0, "", FALSE)
HandOut(rec) == pending' = pending (+) SetToBag({rec})
Fire(rec) ==
  /\ BagIn(rec, pending)
  /\ pending' = pending (-) SetToBag({rec})
  /\ fired' = rec
InFlight(cb) == {rec \in BagToSet(pending) : rec.cb = cb}
Room == BagCardinality(pending) < MaxPending

\* ---------------------------------------------------------------- URLs
\* The project parameter of the page's query string: absent, or a string.  A string
\* that is a URL is kept by its parts; the empty string has none.
Url(userinfo, host, port) ==
  [present |-> TRUE, empty |-> FALSE, userinfo |-> userinfo, host |-> host, port |-> port]
NoParam == [present |-> FALSE, empty |-> FALSE, userinfo |-> "", host |-> "", port |-> ""]
EmptyParam == [present |-> TRUE, empty |-> TRUE, userinfo |-> "", host |-> "", port |-> ""]
Hosts == {"wickeditor.com", "editor.wickeditor.com", "test.wickeditor.com", "aka.ms",
          "evil.com", "wickeditor.com.evil.com", "EDITOR.WICKEDITOR.COM"}
UrlParams == {NoParam, EmptyParam, Url("wickeditor.com", "evil.com", ""),
              Url("", "aka.ms", "8080")}
             \cup {Url("", h, "") : h \in Hosts}

\* String.prototype.toLowerCase on the hosts above.
ToLowerCase(h) == IF h = "EDITOR.WICKEDITOR.COM" THEN "editor.wickeditor.com" ELSE h

\* new urlParse(urlParam).hostname: the host without user info and port, in lower case.
Hostname(url) == ToLowerCase(url.host)

\* ---------------------------------------------------------------- construction
ProjIds == 1..MaxProjects
Tools == {"cursor", "brush", "eraser", "eyedropper"}
Colors == {"#000000", "#ff0000", "#00ff00"}

\* new window.Wick.Project(): the settings of a blank project.
BlankSettings ==
  [name |-> "My Project", width |-> 720, height |-> 480,
   backgroundColor |-> "#ffffff", framerate |-> 12]

\* The fields of the editor but for its project: nothing selected, the cursor tool, no
\* modal, no overlay, no preview, no timer, nothing in flight.
InitFields ==
  /\ autosaveList = <<>>
  /\ previewPlaying = FALSE
  /\ now = 0
  /\ timers = {}
  /\ timersStarted = 0
  /\ autosaveTimeoutID = 0
  /\ lastRequest = -1
  /\ burst = 0
  /\ settings = [p \in ProjIds |-> BlankSettings]
  /\ numSelected = [p \in ProjIds |-> 0]
  /\ activeTool = [p \in ProjIds |-> "cursor"]
  /\ lastUsedTool = "cursor"
  /\ toolBefore = "cursor"
  /\ expectedTool = "cursor"
  /\ toolChanged = FALSE
  /\ fillColor = "#000000"
  /\ eyedropperSet = FALSE
  /\ activeModalName = "null"
  /\ waitOverlay = FALSE
  /\ pending = EmptyBag
  /\ fired = NoCallback
  /\ op = "init"
  /\ input = ""
  /\ given = 0
  /\ effects = <<>>
  /\ newSettings = [k \in {} |-> 0]
  /\ result = Undefined
  /\ ret = "undefined"

\* The editor once mounted: one blank project, with the toast error handler.
InitEditor ==
  /\ project = 1
  /\ created = 1
  /\ errorHandlerOn = {1}
  /\ InitFields

\* ================================================================ selection
\* getSelectionAttribute(attributeName), called by the inspector.
getSelectionAttributeCall(attributeName) ==
  /\ result' = getSelectionAttribute(selAttr, attributeName)
  /\ Ran("getSelectionAttribute", attributeName, <<>>, "undefined")
  /\ UNCHANGED <<projVars, toolVars, uiVars, asyncVars, given, newSettings, selAttr>>

\* setSelectionAttribute(attribute, newValue)
setSelectionAttribute(attribute, newValue) ==
  /\ selAttr' = [selAttr EXCEPT ![attribute] = newValue]
  /\ Ran("setSelectionAttribute", attribute,
         projectDidChange(Options("Set Selection Attribute", FALSE)), "undefined")
  /\ UNCHANGED <<projVars, toolVars, uiVars, asyncVars, given, newSettings, result>>

\* The selection attributes of a project with nothing selected.
EmptySelection == [a \in ExistingAttrs |-> Array(<<>>)]

InitSelection ==
  /\ InitEditor
  /\ urlParam = NoParam
  /\ selAttr \in [ExistingAttrs -> Values]

NextSelection ==
  \/ \E n \in AttrNames : getSelectionAttributeCall(n)
  \/ \E a \in ExistingAttrs, v \in Values : setSelectionAttribute(a, v)

SpecSelection == InitSelection /\ [][NextSelection]_vars

\* C1: getSelectionAttribute(name) is undefined for an empty array, the first element
\* for any other array (whether or not its elements differ), and the value itself when
\* the selection's value is no array (undefined when the attribute does not exist).
FirstElementWins ==
  op = "getSelectionAttribute" =>
    LET a == IF input \in ExistingAttrs THEN selAttr[input] ELSE Undefined IN
    /\ a.t = "array" /\ a.v = <<>> => result = Undefined
    /\ a.t = "array" /\ a.v # <<>> => result = Scalar(Head(a.v))
    /\ a.t # "array" => result = a

\* A selection of two objects whose values differ was asked for: the first value came back.
FirstElementWinsWitness ==
  /\ op = "getSelectionAttribute"
  /\ input = "fillColor"
  /\ selAttr["fillColor"] = Array(<<2, 1>>)
  /\ result = Scalar(2)

\* ================================================================ project settings
validKeys == {"name", "width", "height", "backgroundColor", "framerate"}
SettingKeys == validKeys \cup {"zoom"}

\* The values a caller may pass for each key: the blank project's, or another.
KeyValue(k, other) ==
  CASE k = "name" -> IF other THEN "Film" ELSE "My Project"
    [] k = "width" -> IF other THEN 1080 ELSE 720
    [] k = "height" -> IF other THEN 1920 ELSE 480
    [] k = "backgroundColor" -> IF other THEN "#000000" ELSE "#ffffff"
    [] k = "framerate" -> IF other THEN 24 ELSE 12
    [] OTHER -> IF other THEN 2 ELSE 1

\* The objects a caller may pass as newSettings: up to MaxKeys keys, each with one of
\* its values.
SettingsObjects ==
  {[k \in K |-> KeyValue(k, k \in O)]
     : <<K, O>> \in {ko \in (SUBSET SettingKeys) \X (SUBSET SettingKeys) :
                       ko[2] \subseteq ko[1] /\ Cardinality(ko[1]) <= MaxKeys}}

\* The keys the forEach of updateProjectSettings writes: valid, and differing from the old value.
WrittenKeys(old, ns) == {k \in DOMAIN ns : k \in validKeys /\ old[k] # ns[k]}

updateProjectSettings_alwaysNotify(ns) ==
  LET written == WrittenKeys(settings[project], ns) IN
  /\ settings' = [settings EXCEPT ![project] =
                    [k \in DOMAIN @ |-> IF k \in written THEN ns[k] ELSE @[k]]]
  /\ newSettings' = ns
  /\ Ran("updateProjectSettings", "", projectDidChange(Options("Update Project Settings", FALSE)),
         "undefined")
  /\ UNCHANGED <<project, created, numSelected, errorHandlerOn, toolVars, uiVars, asyncVars,
                 given, selAttr, result>>

\* updateProjectSettings(newSettings)
updateProjectSettings(ns) ==
  LET written == WrittenKeys(settings[project], ns)
      updated == written # {}
  IN
  /\ settings' = [settings EXCEPT ![project] =
                    [k \in DOMAIN @ |-> IF k \in written THEN ns[k] ELSE @[k]]]
  /\ newSettings' = ns
  /\ Ran("updateProjectSettings", "",
         IF updated THEN projectDidChange(Options("Update Project Settings", FALSE)) ELSE <<>>,
         "undefined")
  /\ UNCHANGED <<project, created, numSelected, errorHandlerOn, toolVars, uiVars, asyncVars,
                 given, selAttr, result>>

InitSettings ==
  /\ InitEditor
  /\ urlParam = NoParam
  /\ selAttr = EmptySelection

NextSettings == \E ns \in SettingsObjects : updateProjectSettings(ns)

SpecSettings == InitSettings /\ [][NextSettings]_vars

\* C6: updateProjectSettings writes only valid keys whose new value differs from the
\* current one, requests projectDidChange once when it wrote something and not at all
\* otherwise; a call whose keys are all invalid or equal to the current settings, and
\* so a repeat of the previous call, leaves the project as it was and records nothing.
SettingsDiffOnly ==
  [][op' = "updateProjectSettings" =>
      LET old == settings[project]
          new == settings'[project]
          ns == newSettings'
      IN
      /\ project' = project
      /\ DOMAIN new = DOMAIN old
      /\ \A p \in ProjIds \ {project} : settings'[p] = settings[p]
      /\ \A k \in DOMAIN old :
           new[k] # old[k] => k \in validKeys /\ k \in DOMAIN ns /\ new[k] = ns[k]
      /\ \A k \in validKeys \cap DOMAIN ns : new[k] = ns[k]
      /\ Count(effects', "projectDidChange") = (IF new # old THEN 1 ELSE 0)
      /\ (\A k \in DOMAIN ns : k \notin validKeys \/ ns[k] = old[k])
           => new = old /\ effects' = <<>>
      /\ (op = "updateProjectSettings" /\ ns = newSettings)
           => new = old /\ effects' = <<>>
  ]_vars

\* A call that names the current values again (and an invalid key) after an earlier
\* call has set them: nothing was requested.
SettingsDiffOnlyWitness ==
  /\ op = "updateProjectSettings"
  /\ newSettings = [name |-> "Film", zoom |-> 2]
  /\ settings[project].name = "Film"
  /\ effects = <<>>

\* ================================================================ tools
\* setActiveTool(newTool)
setActiveTool(newTool) ==
  /\ IF newTool # activeTool[project]
       THEN /\ lastUsedTool' = activeTool[project]
            /\ activeTool' = [activeTool EXCEPT ![project] = newTool]
            /\ eyedropperSet' = TRUE
            /\ toolBefore' = activeTool[project]
            /\ toolChanged' = TRUE
            /\ Ran("setActiveTool", newTool,
                   <<Call("toggleBrushModes", "false")>>
                   \o projectDidChange(Options("Set Active Tool", FALSE)), "undefined")
       ELSE /\ UNCHANGED <<lastUsedTool, activeTool, eyedropperSet, toolBefore, toolChanged>>
            /\ Ran("setActiveTool", newTool, <<>>, "undefined")
  /\ UNCHANGED <<projVars, uiVars, asyncVars, given, selAttr, result, newSettings,
                 expectedTool, fillColor>>

\* The assignments of activateLastTool; lastUsedTool is left as it was.
ActivateLast ==
  /\ activeTool' = [activeTool EXCEPT ![project] = lastUsedTool]
  /\ expectedTool' = toolBefore
  /\ toolBefore' = IF lastUsedTool # activeTool[project] THEN activeTool[project]
                   ELSE toolBefore
  /\ toolChanged' = (toolChanged \/ lastUsedTool # activeTool[project])
  /\ UNCHANGED <<lastUsedTool, eyedropperSet>>

\* activateLastTool()
activateLastTool ==
  /\ ActivateLast
  /\ Ran("activateLastTool", "", projectDidChange(Options("Activate Last Tool", FALSE)),
         "undefined")
  /\ UNCHANGED <<projVars, uiVars, asyncVars, given, selAttr, result, newSettings, fillColor>>

\* onEyedropperPickedColor(e): the eyedropper tool, which is the active tool, reports
\* a colour; the handler setActiveTool installed stores it and the last tool comes back.
onEyedropperPickedColor(color) ==
  /\ activeTool[project] = "eyedropper"
  /\ eyedropperSet
  /\ fillColor' = color
  /\ ActivateLast
  /\ Ran("onEyedropperPickedColor", color,
         projectDidChange(Options("Activate Last Tool", FALSE)), "undefined")
  /\ UNCHANGED <<projVars, uiVars, asyncVars, given, selAttr, result, newSettings>>

\* ================================================================ undo, redo, clipboard
\* What an engine call may report: true, false, or another falsy value.
EngineResults == {"true", "false", "undefined"}
Truthy(r) == r = "true"

undoAction_withHistory(r) ==
  /\ Ran("undoAction", r,
         IF ~Truthy(r) THEN toast("Nothing to undo.", "warning")
         ELSE projectDidChange(Options("Undo", FALSE)), "undefined")
  /\ UNCHANGED <<projVars, toolVars, uiVars, asyncVars, given, selAttr, result, newSettings>>

\* undoAction(), r being what this.project.undo() returns
undoAction(r) ==
  /\ Ran("undoAction", r,
         IF ~Truthy(r) THEN toast("Nothing to undo.", "warning")
         ELSE projectDidChange(Options("Undo", TRUE)), "undefined")
  /\ UNCHANGED <<projVars, toolVars, uiVars, asyncVars, given, selAttr, result, newSettings>>

\* redoAction(), r being what this.project.redo() returns
redoAction(r) ==
  /\ Ran("redoAction", r,
         IF ~Truthy(r) THEN toast("Nothing to redo.", "warning")
         ELSE projectDidChange(Options("Redo", TRUE)), "undefined")
  /\ UNCHANGED <<projVars, toolVars, uiVars, asyncVars, given, selAttr, result, newSettings>>

\* copySelectionToClipboard(), r being what this.project.copySelectionToClipboard() returns
copySelectionToClipboard(r) ==
  /\ Ran("copySelectionToClipboard", r,
         IF Truthy(r) THEN projectDidChange(Options("Copy Selection", FALSE))
         ELSE toast("There is nothing to copy.", "warning"), "undefined")
  /\ UNCHANGED <<projVars, toolVars, uiVars, asyncVars, given, selAttr, result, newSettings>>

\* duplicateSelection(), r being what this.project.duplicateSelection() returns
duplicateSelection(r) ==
  /\ Ran("duplicateSelection", r,
         IF Truthy(r) THEN projectDidChange(Options("Duplicate Selection", FALSE))
         ELSE toast("There is nothing to duplicate.", "warning"), "undefined")
  /\ UNCHANGED <<projVars, toolVars, uiVars, asyncVars, given, selAttr, result, newSettings>>

\* cutSelectionToClipboard(), r being what this.project.cutSelectionToClipboard() returns
cutSelectionToClipboard(r) ==
  /\ Ran("cutSelectionToClipboard", r,
         IF Truthy(r) THEN projectDidChange(Options("Cut Selection", FALSE))
         ELSE toast("There is nothing to duplicate.", "warning"), "undefined")
  /\ UNCHANGED <<projVars, toolVars, uiVars, asyncVars, given, selAttr, result, newSettings>>

\* pasteFromClipboard(), r being what this.project.pasteClipboardContents() returns
pasteFromClipboard(r) ==
  /\ Ran("pasteFromClipboard", r,
         IF Truthy(r) THEN projectDidChange(Options("Paste from Clipboard", FALSE))
         ELSE toast("There is nothing in the clipboard to paste.", "warning"), "undefined")
  /\ UNCHANGED <<projVars, toolVars, uiVars, asyncVars, given, selAttr, result, newSettings>>

InitEdit ==
  /\ InitEditor
  /\ urlParam = NoParam
  /\ selAttr = EmptySelection

NextEdit ==
  \/ \E t \in Tools : setActiveTool(t)
  \/ activateLastTool
  \/ \E c \in Colors : onEyedropperPickedColor(c)
  \/ \E r \in EngineResults : undoAction(r)
  \/ \E r \in EngineResults : redoAction(r)
  \/ \E r \in EngineResults : copySelectionToClipboard(r)
  \/ \E r \in EngineResults : duplicateSelection(r)
  \/ \E r \in EngineResults : cutSelectionToClipboard(r)
  \/ \E r \in EngineResults : pasteFromClipboard(r)

SpecEdit == InitEdit /\ [][NextEdit]_vars

EngineCommands == {"undoAction", "redoAction", "copySelectionToClipboard",
                   "cutSelectionToClipboard", "duplicateSelection", "pasteFromClipboard"}

\* C7: undo, redo, copy, cut, duplicate and paste show one warning toast and request no
\* projectDidChange when the engine reports nothing to do (a falsy result); when it
\* succeeds they request projectDidChange once and show no toast; the request of undo
\* and redo carries skipHistory, so neither adds a history entry.
EngineCommandOutcome ==
  op \in EngineCommands =>
    /\ input # "true" =>
         /\ Count(effects, "toast") = 1
         /\ effects[Index(effects, "toast")].arg = "warning"
         /\ Count(effects, "projectDidChange") = 0
         /\ Count(effects, "history.pushState") = 0
    /\ input = "true" =>
         /\ Count(effects, "projectDidChange") = 1
         /\ Count(effects, "toast") = 0
    /\ op \in {"undoAction", "redoAction"} =>
         /\ \A i \in DOMAIN effects :
              effects[i].call = "projectDidChange" => effects[i].skipHistory
         /\ Count(effects, "history.pushState") = 0

\* An undo that had something to undo: one request, carrying skipHistory, no history entry.
EngineCommandOutcomeWitness ==
  /\ op = "undoAction"
  /\ input = "true"
  /\ Count(effects, "projectDidChange") = 1
  /\ effects[1].skipHistory
  /\ Count(effects, "history.pushState") = 0

\* C8: once the tool has been changed, activateLastTool makes the active tool the one
\* that was in use immediately before the currently active tool was activated.
ActivateLastRestoresPrevious ==
  (op \in {"activateLastTool", "onEyedropperPickedColor"} /\ toolChanged)
    => activeTool[project] = expectedTool

\* ================================================================ assets
\* What the asynchronous handlers below leave alone.
editVars == <<projVars, toolVars, selAttr, result, newSettings, given, envVars>>

\* What ObjectCache.getObjectByUUID(uuid) may hand back: an object of one of the three
\* asset classes the handler tests for, an object of another class, or nothing.
AssetSubtypes == {"ImageAsset", "ClipAsset", "SVGAsset"}
ObjKinds == AssetSubtypes \cup {"SoundAsset", "Clip", "undefined"}

\* The creation call each branch of createImageFromAsset makes, and the action name
\* its completion callback passes to projectDidChange.
CreationCall(obj) ==
  CASE obj = "ImageAsset" -> "createImagePathFromAsset"
    [] obj = "ClipAsset" -> "createClipInstanceFromAsset"
    [] obj = "SVGAsset" -> "createSVGInstanceFromAsset"
CreationActionName(cb) ==
  CASE cb = "createImagePathFromAsset" -> "Create Image Path From Asset"
    [] cb = "createClipInstanceFromAsset" -> "Create Clip Instance From Asset"
    [] cb = "createSVGInstanceFromAsset" -> "Create SVG Instance From Asset"
CreationCalls == {CreationCall(o) : o \in AssetSubtypes}

createImageFromAsset_svgAsClip(obj) ==
  /\ IF obj \in AssetSubtypes
       THEN LET c == IF obj = "SVGAsset" THEN "createClipInstanceFromAsset"
                     ELSE CreationCall(obj) IN
            /\ Room
            /\ HandOut(Callback(c, project, "", FALSE))
            /\ Ran("createImageFromAsset", obj, <<CallOn(c, obj, project)>>, "undefined")
       ELSE /\ pending' = pending
            /\ Ran("createImageFromAsset", obj, <<Call("console.error", "")>>, "undefined")
  /\ UNCHANGED <<fired, uiVars, editVars>>

\* createImageFromAsset(uuid, x, y, isCanvasSpace), obj being the cached object of uuid
createImageFromAsset(obj) ==
  /\ IF obj = "ImageAsset"
       THEN /\ Room
            /\ HandOut(Callback("createImagePathFromAsset", project, "", FALSE))
            /\ Ran("createImageFromAsset", obj,
                   <<CallOn("createImagePathFromAsset", obj, project)>>, "undefined")
     ELSE IF obj = "ClipAsset"
       THEN /\ Room
            /\ HandOut(Callback("createClipInstanceFromAsset", project, "", FALSE))
            /\ Ran("createImageFromAsset", obj,
                   <<CallOn("createClipInstanceFromAsset", obj, project)>>, "undefined")
     ELSE IF obj = "SVGAsset"
       THEN /\ Room
            /\ HandOut(Callback("createSVGInstanceFromAsset", project, "", FALSE))
            /\ Ran("createImageFromAsset", obj,
                   <<CallOn("createSVGInstanceFromAsset", obj, project)>>, "undefined")
       ELSE /\ pending' = pending
            /\ Ran("createImageFromAsset", obj, <<Call("console.error", "")>>, "undefined")
  /\ UNCHANGED <<fired, uiVars, editVars>>

\* The completion callback of a creation call: path => / clip => / svg => projectDidChange.
creationCallback(rec) ==
  /\ rec.cb \in CreationCalls
  /\ Fire(rec)
  /\ Ran("createImageFromAsset.callback", rec.cb,
         projectDidChange(Options(CreationActionName(rec.cb), FALSE)), "undefined")
  /\ UNCHANGED <<uiVars, editVars>>

\* The files a user may hand over, and what the engine's import may call back with.
FileNames == {"a.png", "b.mp3"}
ImportResults == {"null", "undefined", "asset"}

\* importFileAsAsset(file, callback); has: the caller passed a callback
importFileAsAsset(file, has) ==
  /\ Room
  /\ HandOut(Callback("importFile", project, file, has))
  /\ Ran("importFileAsAsset", file, <<CallOn("project.importFile", file, project)>>, "undefined")
  /\ UNCHANGED <<fired, uiVars, editVars>>

importFileCallback_silentOnNull(rec, asset) ==
  /\ rec.cb = "importFile"
  /\ Fire(rec)
  /\ Ran("importFile.callback", asset,
         (IF asset = "null"
            THEN toast("Could not add files to project", "error")
            ELSE (IF rec.hasCallback THEN <<Call("callback", asset)>> ELSE <<>>)
                 \o toast("Imported successfully.", "success")
                 \o projectDidChange(Options("Import File As Asset", FALSE))),
         "undefined")
  /\ UNCHANGED <<uiVars, editVars>>

\* (asset) => { ... }: the callback importFileAsAsset hands to project.importFile
importFileCallback(rec, asset) ==
  /\ rec.cb = "importFile"
  /\ Fire(rec)
  /\ Ran("importFile.callback", asset,
         (IF rec.hasCallback THEN <<Call("callback", asset)>> ELSE <<>>)
         \o (IF asset = "null"
               THEN toast("Could not add files to project", "error")
               ELSE toast("Imported successfully.", "success")
                    \o projectDidChange(Options("Import File As Asset", FALSE))),
         "undefined")
  /\ UNCHANGED <<uiVars, editVars>>

\* ================================================================ exports
\* args.name as a caller may pass it ("" when absent), and args.name || this.project.name.
ArgNames == {"", "out"}
OutputName(argName) == IF argName # "" THEN argName ELSE settings[project].name

\* saveAs(blob, base + extension): the call, with the base name it was given.
saveAs(base) == <<Call("saveAs", base)>>
openModal(name) == <<Call("openModal", name)>>
setState(what) == <<Call("setState", what)>>
showWaitOverlay == <<Call("showWaitOverlay", "")>>
hideWaitOverlay == <<Call("hideWaitOverlay", "")>>

\* What a file codec may call back with.
FileResults == {"undefined", "null", "file"}

\* exportProjectAsWickFile()
exportProjectAsWickFile ==
  /\ Room
  /\ HandOut(Callback("toWickFile", project, "", FALSE))
  /\ waitOverlay' = TRUE
  /\ Ran("exportProjectAsWickFile", "",
         showWaitOverlay \o toast("Exporting project as a .wick file...", "info")
         \o <<CallOn("WickFile.toWickFile", "", project)>>, "undefined")
  /\ UNCHANGED <<fired, activeModalName, editVars>>

\* file => { ... }: the callback of WickFile.toWickFile
toWickFileCallback(rec, file) ==
  /\ rec.cb = "toWickFile"
  /\ Fire(rec)
  /\ waitOverlay' = FALSE
  /\ Ran("exportProjectAsWickFile.callback", file,
         IF file = "undefined"
           THEN updateToast("error") \o hideWaitOverlay
           ELSE updateToast("success") \o saveAs(settings[project].name) \o hideWaitOverlay,
         "undefined")
  /\ UNCHANGED <<activeModalName, editVars>>

exportProjectAsAnimatedGIF_noModal(argName) ==
  /\ Room
  /\ HandOut(Callback("GIFExport", project, OutputName(argName), FALSE))
  /\ Ran("exportProjectAsAnimatedGIF", argName,
         setState("renderType gif") \o toast("Exporting animated GIF...", "info")
         \o <<CallOn("GIFExport.createAnimatedGIFFromProject", "", project)>>, "undefined")
  /\ UNCHANGED <<fired, uiVars, editVars>>

\* exportProjectAsAnimatedGIF(args)
exportProjectAsAnimatedGIF(argName) ==
  /\ Room
  /\ HandOut(Callback("GIFExport", project, OutputName(argName), FALSE))
  /\ activeModalName' = "ExportMedia"
  /\ Ran("exportProjectAsAnimatedGIF", argName,
         openModal("ExportMedia") \o setState("renderType gif")
         \o toast("Exporting animated GIF...", "info")
         \o <<CallOn("GIFExport.createAnimatedGIFFromProject", "", project)>>, "undefined")
  /\ UNCHANGED <<fired, waitOverlay, editVars>>

\* onFinish of exportProjectAsAnimatedGIF
gifOnFinish(rec) ==
  /\ rec.cb = "GIFExport"
  /\ Fire(rec)
  /\ Ran("exportProjectAsAnimatedGIF.onFinish", "",
         saveAs(rec.name) \o updateToast("success") \o setState("renderProgress 100"),
         "undefined")
  /\ UNCHANGED <<uiVars, editVars>>

\* onError of exportProjectAsAnimatedGIF
gifOnError(rec) ==
  /\ rec.cb = "GIFExport"
  /\ Fire(rec)
  /\ Ran("exportProjectAsAnimatedGIF.onError", "", <<Call("console.error", "")>>, "undefined")
  /\ UNCHANGED <<uiVars, editVars>>

\* exportProjectAsImageSequence(args)
exportProjectAsImageSequence ==
  /\ Room
  /\ HandOut(Callback("ImageSequence", project, "", FALSE))
  /\ activeModalName' = "ExportMedia"
  /\ Ran("exportProjectAsImageSequence", "",
         openModal("ExportMedia") \o setState("renderType image sequence")
         \o toast("Exporting image sequence...", "info")
         \o <<CallOn("ImageSequence.toPNGSequence", "", project)>>, "undefined")
  /\ UNCHANGED <<fired, waitOverlay, editVars>>

\* onFinish handed to ImageSequence.toPNGSequence
imageSequenceOnFinish(rec) ==
  /\ rec.cb = "ImageSequence"
  /\ Fire(rec)
  /\ waitOverlay' = FALSE
  /\ Ran("exportProjectAsImageSequence.onFinish", "",
         hideWaitOverlay \o updateToast("success") \o saveAs(settings[project].name)
         \o setState("exporting false"), "undefined")
  /\ UNCHANGED <<activeModalName, editVars>>

\* onError handed to ImageSequence.toPNGSequence
imageSequenceOnError(rec) ==
  /\ rec.cb = "ImageSequence"
  /\ Fire(rec)
  /\ waitOverlay' = FALSE
  /\ Ran("exportProjectAsImageSequence.onError", "",
         hideWaitOverlay \o <<Call("console.error", "")>>, "undefined")
  /\ UNCHANGED <<activeModalName, editVars>>

\* exportProjectAsVideo(args)
exportProjectAsVideo ==
  /\ Room
  /\ HandOut(Callback("VideoExport", project, "", FALSE))
  /\ activeModalName' = "ExportMedia"
  /\ Ran("exportProjectAsVideo", "",
         openModal("ExportMedia") \o setState("renderType video")
         \o toast("Exporting video...", "info")
         \o <<CallOn("VideoExport.renderVideo", "", project)>>, "undefined")
  /\ UNCHANGED <<fired, waitOverlay, editVars>>

\* onFinish handed to VideoExport.renderVideo
videoOnFinish(rec) ==
  /\ rec.cb = "VideoExport"
  /\ Fire(rec)
  /\ waitOverlay' = FALSE
  /\ Ran("exportProjectAsVideo.onFinish", "",
         hideWaitOverlay \o updateToast("success") \o <<Call("console.log", "")>>
         \o setState("exporting false"), "undefined")
  /\ UNCHANGED <<activeModalName, editVars>>

\* onError handed to VideoExport.renderVideo
videoOnError(rec) ==
  /\ rec.cb = "VideoExport"
  /\ Fire(rec)
  /\ waitOverlay' = FALSE
  /\ Ran("exportProjectAsVideo.onError", "",
         hideWaitOverlay \o <<Call("console.error", "")>>, "undefined")
  /\ UNCHANGED <<activeModalName, editVars>>

\* onProgress of the GIF, image sequence and video exports: the export goes on.
exportOnProgress(rec) ==
  /\ rec.cb \in {"GIFExport", "ImageSequence", "VideoExport"}
  /\ BagIn(rec, pending)
  /\ fired' = rec
  /\ Ran("export.onProgress", rec.cb, setState("renderProgress"), "undefined")
  /\ UNCHANGED <<pending, uiVars, editVars>>

\* exportProjectAsImageSVG()
exportProjectAsImageSVG ==
  /\ Room
  /\ HandOut(Callback("SVGFile", project, "", FALSE))
  /\ activeModalName' = "ExportMedia"
  /\ Ran("exportProjectAsImageSVG", "",
         openModal("ExportMedia") \o setState("renderType svg")
         \o toast("Exporting svg...", "info")
         \o <<CallOn("SVGFile.toSVGFile", "", project)>>, "undefined")
  /\ UNCHANGED <<fired, waitOverlay, editVars>>

\* file => { ... }: the completion callback handed to SVGFile.toSVGFile
svgOnFinish(rec) ==
  /\ rec.cb = "SVGFile"
  /\ Fire(rec)
  /\ waitOverlay' = FALSE
  /\ Ran("exportProjectAsImageSVG.onFinish", "",
         hideWaitOverlay \o updateToast("success") \o saveAs(settings[project].name)
         \o hideWaitOverlay, "undefined")
  /\ UNCHANGED <<activeModalName, editVars>>

\* onError handed to SVGFile.toSVGFile
svgOnError(rec) ==
  /\ rec.cb = "SVGFile"
  /\ Fire(rec)
  /\ Ran("exportProjectAsImageSVG.onError", "", <<Call("console.error", "")>>, "undefined")
  /\ UNCHANGED <<uiVars, editVars>>

\* exportProjectAsStandaloneZip(args)
exportProjectAsStandaloneZip(argName) ==
  /\ Room
  /\ HandOut(Callback("ZIPExport", project, OutputName(argName), FALSE))
  /\ Ran("exportProjectAsStandaloneZip", argName,
         toast("Exporting project as ZIP...", "info")
         \o <<CallOn("ZIPExport.bundleProject", "", project)>>, "undefined")
  /\ UNCHANGED <<fired, uiVars, editVars>>

\* blob => { ... }: the callback of ZIPExport.bundleProject
zipCallback(rec) ==
  /\ rec.cb = "ZIPExport"
  /\ Fire(rec)
  /\ Ran("exportProjectAsStandaloneZip.callback", "",
         updateToast("success") \o saveAs(rec.name), "undefined")
  /\ UNCHANGED <<uiVars, editVars>>

\* exportProjectAsStandaloneHTML(args)
exportProjectAsStandaloneHTML(argName) ==
  /\ Room
  /\ HandOut(Callback("HTMLExport", project, OutputName(argName), FALSE))
  /\ Ran("exportProjectAsStandaloneHTML", argName,
         toast("Exporting project as HTML...", "info")
         \o <<CallOn("HTMLExport.bundleProject", "", project)>>, "undefined")
  /\ UNCHANGED <<fired, uiVars, editVars>>

\* html => { ... }: the callback of HTMLExport.bundleProject
htmlCallback(rec) ==
  /\ rec.cb = "HTMLExport"
  /\ Fire(rec)
  /\ Ran("exportProjectAsStandaloneHTML.callback", "",
         updateToast("success") \o saveAs(rec.name), "undefined")
  /\ UNCHANGED <<uiVars, editVars>>

\* exportProjectToNewWindow()
exportProjectToNewWindow ==
  /\ Room
  /\ HandOut(Callback("HTMLPreview", project, "", FALSE))
  /\ waitOverlay' = TRUE
  /\ Ran("exportProjectToNewWindow", "",
         showWaitOverlay \o <<CallOn("HTMLPreview.previewProject", "", project)>>, "undefined")
  /\ UNCHANGED <<fired, activeModalName, editVars>>

\* previewWindow => { ... }: null when pop-ups are blocked
previewCallback(rec, previewWindow) ==
  /\ rec.cb = "HTMLPreview"
  /\ Fire(rec)
  /\ waitOverlay' = FALSE
  /\ Ran("exportProjectToNewWindow.callback", previewWindow,
         hideWaitOverlay \o (IF previewWindow = "window"
                               THEN toast("Project preview window opened.", "info")
                               ELSE toast("Could not open a preview window.", "error")),
         "undefined")
  /\ UNCHANGED <<activeModalName, editVars>>

InitAsync ==
  /\ InitEditor
  /\ urlParam = NoParam
  /\ selAttr = EmptySelection

NextAsync ==
  \/ \E o \in ObjKinds : createImageFromAsset(o)
  \/ \E rec \in BagToSet(pending) : creationCallback(rec)
  \/ \E f \in FileNames, has \in BOOLEAN : importFileAsAsset(f, has)
  \/ \E rec \in BagToSet(pending), a \in ImportResults : importFileCallback(rec, a)
  \/ exportProjectAsWickFile
  \/ \E rec \in BagToSet(pending), f \in FileResults : toWickFileCallback(rec, f)
  \/ \E n \in ArgNames : exportProjectAsAnimatedGIF(n)
  \/ \E rec \in BagToSet(pending) : gifOnFinish(rec)
  \/ \E rec \in BagToSet(pending) : gifOnError(rec)
  \/ exportProjectAsImageSequence
  \/ \E rec \in BagToSet(pending) : imageSequenceOnFinish(rec)
  \/ \E rec \in BagToSet(pending) : imageSequenceOnError(rec)
  \/ exportProjectAsVideo
  \/ \E rec \in BagToSet(pending) : videoOnFinish(rec)
  \/ \E rec \in BagToSet(pending) : videoOnError(rec)
  \/ \E rec \in BagToSet(pending) : exportOnProgress(rec)
  \/ exportProjectAsImageSVG
  \/ \E rec \in BagToSet(pending) : svgOnFinish(rec)
  \/ \E rec \in BagToSet(pending) : svgOnError(rec)
  \/ \E n \in ArgNames : exportProjectAsStandaloneZip(n)
  \/ \E rec \in BagToSet(pending) : zipCallback(rec)
  \/ \E n \in ArgNames : exportProjectAsStandaloneHTML(n)
  \/ \E rec \in BagToSet(pending) : htmlCallback(rec)
  \/ exportProjectToNewWindow
  \/ \E rec \in BagToSet(pending), w \in {"null", "window"} : previewCallback(rec, w)

SpecAsync == InitAsync /\ [][NextAsync]_vars

CreationActionNames == {CreationActionName(c) : c \in CreationCalls}
CallsMade(effs) == {effs[i].call : i \in DOMAIN effs}

\* C2: createImageFromAsset makes exactly the creation call of the asset's subtype
\* (ImageAsset: createImagePathFromAsset, ClipAsset: createClipInstanceFromAsset,
\* SVGAsset: createSVGInstanceFromAsset) and requests projectDidChange only when that
\* call's completion callback fires; for any other object it makes no creation call,
\* hands out no callback, and no projectDidChange follows.
AssetDispatch ==
  [][/\ op' = "createImageFromAsset" =>
          /\ Count(effects', "projectDidChange") = 0
          /\ IF input' \in AssetSubtypes
               THEN /\ CallsMade(effects') \cap CreationCalls = {CreationCall(input')}
                    /\ Count(effects', CreationCall(input')) = 1
                    /\ pending' = pending (+)
                         SetToBag({Callback(CreationCall(input'), project, "", FALSE)})
               ELSE /\ CallsMade(effects') \cap CreationCalls = {}
                    /\ pending' = pending
     /\ \A i \in DOMAIN effects' :
          (effects'[i].call = "projectDidChange" /\ effects'[i].arg \in CreationActionNames)
            => /\ op' = "createImageFromAsset.callback"
               /\ BagIn(fired', pending)
               /\ effects'[i].arg = CreationActionName(fired'.cb)
               /\ Count(effects', "projectDidChange") = 1
     /\ \A rec \in BagToSet(pending') :
          (rec.cb \in CreationCalls /\ CopiesIn(rec, pending') > CopiesIn(rec, pending))
            => op' = "createImageFromAsset" /\ input' \in AssetSubtypes
               /\ rec.cb = CreationCall(input')
  ]_vars

\* An SVG asset was dropped and its creation call has completed: one projectDidChange.
AssetDispatchWitness ==
  /\ op = "createImageFromAsset.callback"
  /\ fired.cb = "createSVGInstanceFromAsset"
  /\ Count(effects, "projectDidChange") = 1
  /\ effects[1].arg = "Create SVG Instance From Asset"

ModalExports == {"exportProjectAsAnimatedGIF", "exportProjectAsImageSequence",
                 "exportProjectAsVideo", "exportProjectAsImageSVG"}
BundleExports == {"exportProjectAsStandaloneZip", "exportProjectAsStandaloneHTML"}

\* The call each export delegates with, and the handler that runs on its completion.
Delegate(e) ==
  CASE e = "exportProjectAsAnimatedGIF" -> "GIFExport.createAnimatedGIFFromProject"
    [] e = "exportProjectAsImageSequence" -> "ImageSequence.toPNGSequence"
    [] e = "exportProjectAsVideo" -> "VideoExport.renderVideo"
    [] e = "exportProjectAsImageSVG" -> "SVGFile.toSVGFile"
    [] e = "exportProjectAsStandaloneZip" -> "ZIPExport.bundleProject"
    [] e = "exportProjectAsStandaloneHTML" -> "HTMLExport.bundleProject"
Completion(e) ==
  IF e \in ModalExports THEN <<e, "onFinish">> ELSE <<e, "callback">>
CompletionOp ==
  CASE op = "exportProjectAsAnimatedGIF.onFinish" -> <<"exportProjectAsAnimatedGIF", "onFinish">>
    [] op = "exportProjectAsImageSequence.onFinish" -> <<"exportProjectAsImageSequence", "onFinish">>
    [] op = "exportProjectAsVideo.onFinish" -> <<"exportProjectAsVideo", "onFinish">>
    [] op = "exportProjectAsImageSVG.onFinish" -> <<"exportProjectAsImageSVG", "onFinish">>
    [] op = "exportProjectAsStandaloneZip.callback" -> <<"exportProjectAsStandaloneZip", "callback">>
    [] op = "exportProjectAsStandaloneHTML.callback" -> <<"exportProjectAsStandaloneHTML", "callback">>
    [] OTHER -> <<"", "">>
Completed == CompletionOp # <<"", "">>

\* A completion is reported with the toast updated to success, by a callback that the
\* export handed out, and neither opens a modal nor delegates again.
CompletionToast ==
  Completed =>
    /\ CompletionOp = Completion(CompletionOp[1])
    /\ Count(effects, "updateToast") = 1
    /\ effects[Index(effects, "updateToast")].arg = "success"
    /\ Count(effects, "openModal") = 0
    /\ CallsMade(effects) \cap {Delegate(e) : e \in ModalExports \cup BundleExports} = {}

\* C3 as it was claimed: each of the six exports opens a modal, then delegates to its
\* export module, and shows a toast when the module reports completion.
ExportOpensModalFirst ==
  /\ op \in ModalExports \cup BundleExports =>
       /\ 0 < Index(effects, "openModal")
       /\ Index(effects, "openModal") < Index(effects, Delegate(op))
  /\ CompletionToast

\* C3, amended: the animated GIF, image sequence, video and SVG exports open the
\* ExportMedia modal, then delegate to their export module once, and the completion
\* the module reports updates the export's toast to success; the standalone ZIP and
\* HTML exports delegate and report completion the same way but open no modal.
ExportOrchestration ==
  /\ op \in ModalExports =>
       /\ Count(effects, "openModal") = 1
       /\ effects[Index(effects, "openModal")].arg = "ExportMedia"
       /\ activeModalName = "ExportMedia"
       /\ Index(effects, "openModal") < Index(effects, Delegate(op))
       /\ Count(effects, Delegate(op)) = 1
  /\ op \in BundleExports =>
       /\ Count(effects, "openModal") = 0
       /\ Count(effects, Delegate(op)) = 1
  /\ CompletionToast

\* A GIF export has completed under the modal its start opened.
ExportOrchestrationWitness ==
  /\ op = "exportProjectAsAnimatedGIF.onFinish"
  /\ activeModalName = "ExportMedia"
  /\ fired.cb = "GIFExport"
  /\ Count(effects, "updateToast") = 1

\* A delegate has reported a failure: a null or undefined result, or a call of onError.
FailureReported ==
  \/ op = "exportProjectAsWickFile.callback" /\ input \in {"undefined", "null"}
  \/ op = "importFile.callback" /\ input \in {"undefined", "null"}
  \/ op = "exportProjectToNewWindow.callback" /\ input = "null"
  \/ op \in {"exportProjectAsAnimatedGIF.onError", "exportProjectAsImageSequence.onError",
              "exportProjectAsVideo.onError", "exportProjectAsImageSVG.onError"}

\* C4: whenever an import or export delegate reports a failure, a toast is shown to
\* the user, and the failure is neither retried nor propagated.
FailureShowsToast ==
  FailureReported =>
    /\ Count(effects, "toast") + Count(effects, "updateToast") >= 1
    /\ \A i \in DOMAIN effects : effects[i].target = 0
    /\ Count(effects, "throw") = 0

\* C5: when the engine's import callback fires, the caller's callback (when given) is
\* invoked exactly once with the resulting asset; a null asset gives an error toast and
\* no projectDidChange, any other asset a success toast and exactly one projectDidChange.
ImportOutcome ==
  op = "importFile.callback" =>
    /\ Count(effects, "callback") = (IF fired.hasCallback THEN 1 ELSE 0)
    /\ fired.hasCallback => effects[Index(effects, "callback")].arg = input
    /\ Count(effects, "toast") = 1
    /\ input = "null" =>
         /\ effects[Index(effects, "toast")].arg = "error"
         /\ Count(effects, "projectDidChange") = 0
    /\ input # "null" =>
         /\ effects[Index(effects, "toast")].arg = "success"
         /\ Count(effects, "projectDidChange") = 1

\* An import failed and the caller's callback was told so with null.
ImportOutcomeWitness ==
  /\ op = "importFile.callback"
  /\ fired.hasCallback
  /\ input = "null"
  /\ effects[1] = Call("callback", "null")
  /\ Count(effects, "projectDidChange") = 0

\* ================================================================ project lifecycle
\* What the lifecycle handlers below leave alone.
otherVars == <<toolVars, selAttr, result, newSettings, envVars, activeModalName>>

\* selectObject(object)
selectObject ==
  /\ numSelected' = [numSelected EXCEPT ![project] = 1]
  /\ Ran("selectObject", "", projectDidChange(Options("Select Object", FALSE)), "undefined")
  /\ UNCHANGED <<project, created, settings, errorHandlerOn, waitOverlay, pending, fired,
                 given, otherVars>>

\* clearSelection()
clearSelection ==
  /\ numSelected' = [numSelected EXCEPT ![project] = 0]
  /\ Ran("clearSelection", "", projectDidChange(Options("Clear Selection", FALSE)), "undefined")
  /\ UNCHANGED <<project, created, settings, errorHandlerOn, waitOverlay, pending, fired,
                 given, otherVars>>

\* The project objects that exist, and the one a constructor or a codec makes next.
Existing == 1..created
Fresh == created + 1
CanCreate == created < MaxProjects
RoomToLoad == BagCardinality(pending) < MaxLoads

\* What a .wick file codec may call back with: no project, or a new project object
\* with the name and the selection stored in the file.
LoadedNames == {"Film"}
LoadedSelections == {0, 2}

\* The calls setupNewProject makes once this.project is p.
SetupCalls(p, handlerOn) ==
  <<Call("resetEditorForLoad", "")>> \o <<CallOn("selection.clear", "", p)>>
  \o <<CallOn("project.onError", "", handlerOn)>>
  \o projectDidChange(Options("Setup New Project", FALSE))
  \o hideWaitOverlay \o <<CallOn("view.prerender", "", p), CallOn("view.render", "", p)>>

setupNewProject_handlerOnOld(loaded, name, sel, caller, arg, after) ==
  /\ CanCreate
  /\ project' = Fresh
  /\ created' = Fresh
  /\ given' = IF loaded THEN Fresh ELSE 0
  /\ settings' = [settings EXCEPT ![Fresh] =
                    IF loaded THEN [BlankSettings EXCEPT !.name = name] ELSE BlankSettings]
  /\ numSelected' = [numSelected EXCEPT ![Fresh] = 0]
  /\ errorHandlerOn' = errorHandlerOn \cup {project}
  /\ waitOverlay' = FALSE
  /\ Ran(caller, arg, SetupCalls(Fresh, project) \o after, "undefined")

\* setupNewProject(project), run by the handler `caller` (whose argument was arg and
\* which goes on to make the calls `after`).  loaded: a project object was given, the
\* newest one, which the codec has just made with the name `name` and `sel` objects
\* selected; otherwise new window.Wick.Project() makes a blank one.
setupNewProject(loaded, name, sel, caller, arg, after) ==
  /\ CanCreate
  /\ project' = Fresh
  /\ created' = Fresh
  /\ given' = IF loaded THEN Fresh ELSE 0
  /\ settings' = [settings EXCEPT ![Fresh] =
                    IF loaded THEN [BlankSettings EXCEPT !.name = name] ELSE BlankSettings]
  /\ numSelected' = [numSelected EXCEPT ![Fresh] = 0]
  /\ errorHandlerOn' = errorHandlerOn \cup {Fresh}
  /\ waitOverlay' = FALSE
  /\ Ran(caller, arg, SetupCalls(Fresh, Fresh) \o after, "undefined")

\* importProjectAsWickFile(file)
importProjectAsWickFile(file) ==
  /\ RoomToLoad
  /\ HandOut(Callback("fromWickFile", project, file, FALSE))
  /\ waitOverlay' = TRUE
  /\ Ran("importProjectAsWickFile", file,
         showWaitOverlay \o <<Call("WickFile.fromWickFile", file)>>, "undefined")
  /\ UNCHANGED <<projVars, fired, given, otherVars>>

\* project => { ... }: the callback importProjectAsWickFile hands to WickFile.fromWickFile
importProjectCallback(rec, loaded, name, sel) ==
  /\ rec.cb = "fromWickFile"
  /\ Fire(rec)
  /\ IF loaded
       THEN setupNewProject(TRUE, name, sel, "importProjectAsWickFile.callback", "project",
                            toast("Opened successfully.", "success"))
       ELSE /\ waitOverlay' = FALSE
            /\ Ran("importProjectAsWickFile.callback", "null",
                   toast("Could not open project.", "error") \o hideWaitOverlay, "undefined")
            /\ UNCHANGED <<projVars, given>>
  /\ UNCHANGED otherVars

\* openNewProjectConfirmation(): the warning modal is put up
openNewProjectConfirmation ==
  /\ RoomToLoad
  /\ HandOut(Callback("warningModal", project, "", FALSE))
  /\ Ran("openNewProjectConfirmation", "", <<Call("openWarningModal", "Open a New Project?")>>,
         "undefined")
  /\ UNCHANGED <<projVars, waitOverlay, fired, given, otherVars>>

\* acceptAction of the warning modal: setTimeout(() => this.setupNewProject(), 100)
newProjectAccepted(rec) ==
  /\ rec.cb = "warningModal"
  /\ BagIn(rec, pending)
  /\ pending' = (pending (-) SetToBag({rec}))
                 (+) SetToBag({Callback("newProjectTimeout", project, "", FALSE)})
  /\ fired' = rec
  /\ Ran("openNewProjectConfirmation.acceptAction", "", <<Call("setTimeout", "100")>>,
         "undefined")
  /\ UNCHANGED <<projVars, waitOverlay, given, otherVars>>

\* cancelAction of the warning modal
newProjectCancelled(rec) ==
  /\ rec.cb = "warningModal"
  /\ Fire(rec)
  /\ Ran("openNewProjectConfirmation.cancelAction", "", <<>>, "undefined")
  /\ UNCHANGED <<projVars, waitOverlay, given, otherVars>>

\* The timer of acceptAction fires: this.setupNewProject()
newProjectTimeout(rec) ==
  /\ rec.cb = "newProjectTimeout"
  /\ Fire(rec)
  /\ setupNewProject(FALSE, "", 0, "openNewProjectConfirmation.timeout", "", <<>>)
  /\ UNCHANGED otherVars

whitelist == {"wickeditor.com", "editor.wickeditor.com", "test.wickeditor.com", "aka.ms"}

tryToParseProjectURL_hostContains ==
  /\ IF ~urlParam.present \/ urlParam.empty
       THEN /\ Ran("tryToParseProjectURL", "", <<>>, "false")
            /\ UNCHANGED pending
     ELSE IF Hostname(urlParam) \notin whitelist \cup {"wickeditor.com.evil.com"}
       THEN /\ Ran("tryToParseProjectURL", Hostname(urlParam),
                   toast("Could not open project from link!", "warning")
                   \o <<Call("console.error", "")>>, "false")
            /\ UNCHANGED pending
       ELSE /\ RoomToLoad
            /\ HandOut(Callback("fetch", project, Hostname(urlParam), FALSE))
            /\ Ran("tryToParseProjectURL", Hostname(urlParam),
                   <<Call("fetch", Hostname(urlParam))>>, "true")
  /\ UNCHANGED <<projVars, waitOverlay, fired, given, otherVars>>

\* tryToParseProjectURL()
tryToParseProjectURL ==
  /\ IF ~urlParam.present \/ urlParam.empty
       THEN /\ Ran("tryToParseProjectURL", "", <<>>, "false")
            /\ UNCHANGED pending
     ELSE IF Hostname(urlParam) \notin whitelist
       THEN /\ Ran("tryToParseProjectURL", Hostname(urlParam),
                   toast("Could not open project from link!", "warning")
                   \o <<Call("console.error", "")>>, "false")
            /\ UNCHANGED pending
       ELSE /\ RoomToLoad
            /\ HandOut(Callback("fetch", project, Hostname(urlParam), FALSE))
            /\ Ran("tryToParseProjectURL", Hostname(urlParam),
                   <<Call("fetch", Hostname(urlParam))>>, "true")
  /\ UNCHANGED <<projVars, waitOverlay, fired, given, otherVars>>

\* .then(resp => resp.blob()).then(blob => WickFile.fromWickFile(blob, ..., 'blob'))
fetchResolved(rec) ==
  /\ rec.cb = "fetch"
  /\ BagIn(rec, pending)
  /\ pending' = (pending (-) SetToBag({rec}))
                 (+) SetToBag({Callback("fromWickFile.blob", rec.p, rec.name, FALSE)})
  /\ fired' = rec
  /\ Ran("tryToParseProjectURL.then", rec.name, <<Call("WickFile.fromWickFile", "blob")>>,
         "undefined")
  /\ UNCHANGED <<projVars, waitOverlay, given, otherVars>>

\* .catch((e) => { ... })
fetchRejected(rec) ==
  /\ rec.cb = "fetch"
  /\ Fire(rec)
  /\ Ran("tryToParseProjectURL.catch", rec.name,
         toast("Could not download project from URL.", "warning")
         \o <<Call("console.error", ""), Call("console.error", "")>>, "undefined")
  /\ UNCHANGED <<projVars, waitOverlay, given, otherVars>>

\* loadedProject => { this.setupNewProject(loadedProject); }
urlProjectCallback(rec, loaded, name, sel) ==
  /\ rec.cb = "fromWickFile.blob"
  /\ Fire(rec)
  /\ setupNewProject(loaded, name, sel, "tryToParseProjectURL.callback",
                     IF loaded THEN "project" ELSE "null", <<>>)
  /\ UNCHANGED otherVars

InitProject ==
  /\ InitEditor
  /\ selAttr = EmptySelection
  /\ urlParam \in UrlParams

NextProject ==
  \/ selectObject
  \/ clearSelection
  \/ \E f \in {"a.wick"} : importProjectAsWickFile(f)
  \/ \E rec \in BagToSet(pending), l \in BOOLEAN, n \in LoadedNames, k \in LoadedSelections :
       importProjectCallback(rec, l, n, k)
  \/ openNewProjectConfirmation
  \/ \E rec \in BagToSet(pending) : newProjectAccepted(rec)
  \/ \E rec \in BagToSet(pending) : newProjectCancelled(rec)
  \/ \E rec \in BagToSet(pending) : newProjectTimeout(rec)
  \/ tryToParseProjectURL
  \/ \E rec \in BagToSet(pending) : fetchResolved(rec)
  \/ \E rec \in BagToSet(pending) : fetchRejected(rec)
  \/ \E rec \in BagToSet(pending), l \in BOOLEAN, n \in LoadedNames, k \in LoadedSelections :
       urlProjectCallback(rec, l, n, k)

SpecProject == InitProject /\ [][NextProject]_vars

\* C9: tryToParseProjectURL starts a fetch only when the hostname of the project
\* parameter is wickeditor.com, editor.wickeditor.com, test.wickeditor.com or aka.ms;
\* for any other hostname it returns false, shows a warning toast, fetches nothing and
\* leaves the current project as it is; with no project parameter it returns false with
\* no toast and no fetch; and it returns true exactly when a fetch was started.
UrlWhitelist ==
  [][op' = "tryToParseProjectURL" =>
      LET fetches == Count(effects', "fetch")
          hasParam == urlParam.present /\ ~urlParam.empty
          allowed == hasParam /\ Hostname(urlParam) \in
                       {"wickeditor.com", "editor.wickeditor.com", "test.wickeditor.com",
                        "aka.ms"}
      IN
      /\ fetches = (IF allowed THEN 1 ELSE 0)
      /\ allowed => effects'[Index(effects', "fetch")].arg = Hostname(urlParam)
      /\ ret' = (IF fetches = 1 THEN "true" ELSE "false")
      /\ ~hasParam => effects' = <<>>
      /\ (hasParam /\ ~allowed) =>
           /\ Count(effects', "toast") = 1
           /\ effects'[Index(effects', "toast")].arg = "warning"
      /\ ~allowed => pending' = pending
      /\ allowed => BagCardinality(pending') = BagCardinality(pending) + 1
      /\ UNCHANGED <<project, created, settings, numSelected, errorHandlerOn>>
  ]_vars

\* A link whose user info names a whitelisted host but whose host does not: refused.
UrlWhitelistWitness ==
  /\ op = "tryToParseProjectURL"
  /\ urlParam = Url("wickeditor.com", "evil.com", "")
  /\ ret = "false"
  /\ Count(effects, "toast") = 1
  /\ pending = EmptyBag

\* setupNewProject has just run: in the callback of a project import that yielded a
\* project, in the callback of a download, or in the timer of a confirmed new project.
SetupRan ==
  \/ op \in {"tryToParseProjectURL.callback", "openNewProjectConfirmation.timeout"}
  \/ op = "importProjectAsWickFile.callback" /\ input = "project"

\* C10: after setupNewProject(project) the current project is the given one (a newly
\* made blank project when none is given), its selection is empty, the editor was reset
\* for load, the toast error handler is attached to the new project and not to the
\* previous one, exactly one projectDidChange was requested, and the overlay is hidden.
SetupInstallsProject ==
  [][SetupRan' =>
      /\ given' # 0 => project' = given'
      /\ given' = 0 => project' \notin Existing /\ settings'[project'] = BlankSettings
      /\ project' # project
      /\ numSelected'[project'] = 0
      /\ Count(effects', "resetEditorForLoad") = 1
      /\ Count(effects', "project.onError") = 1
      /\ effects'[Index(effects', "project.onError")].target = project'
      /\ errorHandlerOn' = errorHandlerOn \cup {project'}
      /\ Count(effects', "projectDidChange") = 1
      /\ ~waitOverlay'
  ]_vars

\* A .wick file was opened while the overlay was up: the project it held is current.
SetupInstallsProjectWitness ==
  /\ op = "importProjectAsWickFile.callback"
  /\ input = "project"
  /\ project = 2
  /\ given = 2
  /\ settings[2].name = "Film"
  /\ errorHandlerOn = {1, 2}
  /\ ~waitOverlay

\* The file codec has just called back with no project.
LoadFailed ==
  /\ op \in {"importProjectAsWickFile.callback", "tryToParseProjectURL.callback"}
  /\ input = "null"

\* C11: a project load that fails never replaces the current project: when the codec
\* yields no project, importProjectAsWickFile and the download of tryToParseProjectURL
\* leave the current project, its selection and its history as they were and show a
\* message that the project could not be opened.
FailedLoadKeepsProject ==
  [][LoadFailed' =>
      /\ project' = project
      /\ created' = created
      /\ numSelected' = numSelected
      /\ Count(effects', "history.pushState") = 0
      /\ Count(effects', "toast") = 1
      /\ effects'[Index(effects', "toast")].arg \in {"error", "warning"}
  ]_vars

\* ================================================================ autosave
\* Time is counted in ticks of TickMs milliseconds; the autosave delay is 1000 * 60 ms.
TickMs == 30000
AutosaveDelayMs == 60000
AutosaveDelay == AutosaveDelayMs \div TickMs
MaxTime == 4
MaxRequests == 3

autosaveVars == <<toolVars, selAttr, result, newSettings, urlParam>>

\* Time passes.  A timer that is due may still run late: the page has one thread.
Tick ==
  /\ now < MaxTime
  /\ now' = now + 1
  /\ UNCHANGED <<projVars, uiVars, pending, fired, op, input, given, effects, ret,
                 previewPlaying, timers, timersStarted, autosaveTimeoutID, lastRequest,
                 burst, autosaveList, autosaveVars>>

\* window.clearTimeout(id): the timer of that id, if it is still there, is dropped.
clearTimeout(id) == {t \in timers : t.id # id}

requestAutosave_noClear ==
  /\ timersStarted < MaxRequests
  /\ timersStarted' = timersStarted + 1
  /\ timers' = timers \cup {[id |-> timersStarted + 1, due |-> now + AutosaveDelay]}
  /\ autosaveTimeoutID' = timersStarted + 1
  /\ burst' = IF lastRequest = -1 \/ now - lastRequest >= AutosaveDelay THEN 0 ELSE burst
  /\ lastRequest' = now
  /\ Ran("requestAutosave", "", <<Call("setTimeout", "1000 * 60")>>, "undefined")
  /\ UNCHANGED <<projVars, uiVars, pending, fired, given, previewPlaying, now, autosaveList,
                 autosaveVars>>

\* requestAutosave()
requestAutosave ==
  /\ timersStarted < MaxRequests
  /\ timersStarted' = timersStarted + 1
  /\ timers' = clearTimeout(autosaveTimeoutID)
                 \cup {[id |-> timersStarted + 1, due |-> now + AutosaveDelay]}
  /\ autosaveTimeoutID' = timersStarted + 1
  /\ burst' = IF lastRequest = -1 \/ now - lastRequest >= AutosaveDelay THEN 0 ELSE burst
  /\ lastRequest' = now
  /\ Ran("requestAutosave", "",
         <<Call("clearTimeout", ""), Call("setTimeout", "1000 * 60")>>, "undefined")
  /\ UNCHANGED <<projVars, uiVars, pending, fired, given, previewPlaying, now, autosaveList,
                 autosaveVars>>

autoSaveProject_ignoresModal ==
  /\ IF project = 0 \/ previewPlaying
       THEN /\ Ran("autoSaveProject", "", <<>>, "undefined")
            /\ UNCHANGED pending
       ELSE /\ HandOut(Callback("AutoSave.save", project, "", TRUE))
            /\ Ran("autoSaveProject", "", <<CallOn("AutoSave.save", "", project)>>, "undefined")
  /\ UNCHANGED <<projVars, uiVars, fired, given, previewPlaying, autosaveList, autosaveVars>>

\* autoSaveProject(callback)
autoSaveProject ==
  /\ IF project = 0 \/ previewPlaying \/ activeModalName # "null"
       THEN /\ Ran("autoSaveProject", "", <<>>, "undefined")
            /\ UNCHANGED pending
       ELSE /\ HandOut(Callback("AutoSave.save", project, "", TRUE))
            /\ Ran("autoSaveProject", "", <<CallOn("AutoSave.save", "", project)>>, "undefined")
  /\ UNCHANGED <<projVars, uiVars, fired, given, previewPlaying, autosaveList, autosaveVars>>

\* The timer of requestAutosave runs: () => { this.autoSaveProject(() => {}); }
autosaveTimeout(t) ==
  /\ t \in timers
  /\ t.due <= now
  /\ timers' = timers \ {t}
  /\ burst' = burst + 1
  /\ autoSaveProject
  /\ UNCHANGED <<now, timersStarted, autosaveTimeoutID, lastRequest>>

\* () => { callback(); }: the callback autoSaveProject hands to AutoSave.save
autoSaveCallback(rec) ==
  /\ rec.cb = "AutoSave.save"
  /\ Fire(rec)
  /\ Ran("autoSaveProject.callback", "", <<Call("callback", "")>>, "undefined")
  /\ UNCHANGED <<projVars, uiVars, given, previewPlaying, timerVars, autosaveList,
                 autosaveVars>>

\* togglePreviewPlaying(), with what it reads of the engine's project and of the
\* editor's state: onionSkinEnabled and state.onionSkinningWasOn.  With no project the
\* read of this.project.onionSkinEnabled throws before anything is changed.
togglePreviewPlaying(onionSkinEnabled, onionSkinningWasOn) ==
  /\ IF project = 0
       THEN /\ Ran("togglePreviewPlaying", "", <<>>, "TypeError")
            /\ UNCHANGED <<previewPlaying, numSelected, waitOverlay>>
       ELSE /\ previewPlaying' = ~previewPlaying
            /\ numSelected' = [numSelected EXCEPT ![project] = 0]
            /\ waitOverlay' = FALSE
            /\ Ran("togglePreviewPlaying", "",
                   (IF ~previewPlaying /\ onionSkinEnabled
                      THEN projectDidChange(Options("Toggle Onion Skinning", FALSE))
                      ELSE <<>>)
                   \o showWaitOverlay
                   \o (IF numSelected[project] > 0
                         THEN <<CallOn("view.applyChanges", "", project),
                                CallOn("selection.clear", "", project)>>
                         ELSE <<>>)
                   \o (IF previewPlaying /\ onionSkinningWasOn /\ ~onionSkinEnabled
                         THEN projectDidChange(Options("Toggle Onion Skinning", FALSE))
                         ELSE <<>>)
                   \o setState("previewPlaying") \o hideWaitOverlay, "undefined")
  /\ UNCHANGED <<project, created, settings, errorHandlerOn, activeModalName, pending, fired,
                 given, timerVars, autosaveList, autosaveVars>>

\* stopPreviewPlaying(), with whether the engine's project holds an error.
stopPreviewPlaying(error) ==
  /\ IF project = 0
       THEN /\ Ran("stopPreviewPlaying", "", <<>>, "TypeError")
            /\ UNCHANGED previewPlaying
       ELSE /\ previewPlaying' = FALSE
            /\ Ran("stopPreviewPlaying", "",
                   setState("previewPlaying")
                   \o (IF error THEN <<Call("editScript", "")>> ELSE <<>>)
                   \o projectDidChange(Options("Stop Preview Playing", FALSE)), "undefined")
  /\ UNCHANGED <<projVars, uiVars, pending, fired, given, timerVars, autosaveList,
                 autosaveVars>>

\* beginMakeInteractiveProcess()
beginMakeInteractiveProcess ==
  /\ activeModalName' = "MakeInteractive"
  /\ Ran("beginMakeInteractiveProcess", "", openModal("MakeInteractive"), "undefined")
  /\ UNCHANGED <<projVars, waitOverlay, pending, fired, given, previewPlaying, timerVars,
                 autosaveList, autosaveVars>>

\* The autosaves the store may list, by uuid, and the lists it may call back with.
Uuids == {"u1", "u2"}
AutosaveLists == UNION {[1..n -> Uuids] : n \in 0..MaxArrLen}

\* How many of the calls of loadAutosavedProject have not run to their end.
LoadsInFlight ==
  LET S == InFlight("AutoSave.getAutosavesList") \cup InFlight("AutoSave.load")
  IN BagCardinality([r \in S |-> pending[r]])

\* loadAutosavedProject(callback)
loadAutosavedProject ==
  /\ LoadsInFlight < MaxLoads
  /\ HandOut(Callback("AutoSave.getAutosavesList", project, "", TRUE))
  /\ Ran("loadAutosavedProject", "", <<Call("AutoSave.getAutosavesList", "")>>, "undefined")
  /\ UNCHANGED <<projVars, uiVars, fired, given, previewPlaying, timerVars, autosaveList,
                 autosaveVars>>

autosavesListCallback_lastOfList(rec, list) ==
  /\ rec.cb = "AutoSave.getAutosavesList"
  /\ BagIn(rec, pending)
  /\ fired' = rec
  /\ autosaveList' = list
  /\ IF list = <<>>
       THEN /\ pending' = pending (-) SetToBag({rec})
            /\ Ran("loadAutosavedProject.listCallback", "", <<Call("callback", "")>>,
                   "undefined")
            /\ UNCHANGED waitOverlay
       ELSE /\ pending' = (pending (-) SetToBag({rec}))
                           (+) SetToBag({Callback("AutoSave.load", project, list[Len(list)],
                                                  TRUE)})
            /\ waitOverlay' = TRUE
            /\ Ran("loadAutosavedProject.listCallback", list[Len(list)],
                   showWaitOverlay \o <<Call("AutoSave.load", list[Len(list)])>>, "undefined")
  /\ UNCHANGED <<projVars, activeModalName, given, previewPlaying, timerVars, autosaveVars>>

\* autosaveList => { ... }: the callback loadAutosavedProject hands to getAutosavesList
autosavesListCallback(rec, list) ==
  /\ rec.cb = "AutoSave.getAutosavesList"
  /\ BagIn(rec, pending)
  /\ fired' = rec
  /\ autosaveList' = list
  /\ IF list = <<>>
       THEN /\ pending' = pending (-) SetToBag({rec})
            /\ Ran("loadAutosavedProject.listCallback", "", <<Call("callback", "")>>,
                   "undefined")
            /\ UNCHANGED waitOverlay
       ELSE /\ pending' = (pending (-) SetToBag({rec}))
                           (+) SetToBag({Callback("AutoSave.load", project, list[1], TRUE)})
            /\ waitOverlay' = TRUE
            /\ Ran("loadAutosavedProject.listCallback", list[1],
                   showWaitOverlay \o <<Call("AutoSave.load", list[1])>>, "undefined")
  /\ UNCHANGED <<projVars, activeModalName, given, previewPlaying, timerVars, autosaveVars>>

\* project => { ... }: the callback handed to AutoSave.load
autosaveLoadCallback(rec, loaded, name, sel) ==
  /\ rec.cb = "AutoSave.load"
  /\ Fire(rec)
  /\ setupNewProject(loaded, name, sel, "loadAutosavedProject.loadCallback", rec.name,
                     hideWaitOverlay \o <<Call("callback", "")>>)
  /\ UNCHANGED <<activeModalName, previewPlaying, timerVars, autosaveList, autosaveVars>>

\* The editor as constructed, before a project is assigned, or once mounted.
InitAutosave ==
  /\ project \in {0, 1}
  /\ created = project
  /\ errorHandlerOn = 1..project
  /\ InitFields
  /\ selAttr = EmptySelection
  /\ urlParam = NoParam

\* The autosave timer, with the preview and a modal coming and going.
NextAutosave ==
  \/ Tick
  \/ requestAutosave
  \/ \E t \in timers : autosaveTimeout(t)
  \/ \E rec \in BagToSet(pending) : autoSaveCallback(rec)
  \/ \E o \in BOOLEAN, w \in BOOLEAN : togglePreviewPlaying(o, w)
  \/ \E e \in BOOLEAN : stopPreviewPlaying(e)
  \/ beginMakeInteractiveProcess

SpecAutosave == InitAutosave /\ [][NextAutosave]_vars

\* Loading the autosaved project, with objects being selected and the preview toggled.
NextAutoload ==
  \/ project # 0 /\ selectObject
  \/ \E o \in BOOLEAN, w \in BOOLEAN : togglePreviewPlaying(o, w)
  \/ loadAutosavedProject
  \/ \E rec \in BagToSet(pending), list \in AutosaveLists : autosavesListCallback(rec, list)
  \/ \E rec \in BagToSet(pending), l \in BOOLEAN, n \in LoadedNames, k \in LoadedSelections :
       autosaveLoadCallback(rec, l, n, k)

SpecAutoload == InitAutosave /\ [][NextAutoload]_vars

\* The step in which the autosave timer runs and calls autoSaveProject.
AutosaveAttempt == op' = "autoSaveProject" /\ burst' = burst + 1

\* C12: autoSaveProject calls AutoSave.save only when a project exists, the preview is
\* not playing and no modal is open; in every other case it returns without saving and
\* without invoking its callback.
AutosaveGuards ==
  [][AutosaveAttempt =>
      LET ok == project # 0 /\ ~previewPlaying /\ activeModalName = "null"
      IN
      /\ Count(effects', "AutoSave.save") = (IF ok THEN 1 ELSE 0)
      /\ Count(effects', "callback") = 0
      /\ ok => /\ effects'[Index(effects', "AutoSave.save")].target = project
               /\ BagCardinality(pending') = BagCardinality(pending) + 1
      /\ ~ok => effects' = <<>> /\ pending' = pending
  ]_vars

\* The timer ran while a modal was open over an existing project: nothing was saved.
AutosaveGuardsWitness ==
  /\ op = "autoSaveProject"
  /\ project = 1
  /\ ~previewPlaying
  /\ activeModalName = "MakeInteractive"
  /\ effects = <<>>
  /\ pending = EmptyBag

\* C14: at most one autosave timer is pending at any time; requests made within 60
\* seconds of one another cause at most one autosave attempt, and an attempt happens no
\* earlier than 60 seconds after the last request.
OneAutosaveTimer ==
  /\ [](Cardinality(timers) <= 1 /\ burst <= 1)
  /\ [][AutosaveAttempt =>
          /\ lastRequest # -1
          /\ (now' - lastRequest) * TickMs >= 60 * 1000
          /\ timers' = {}
      ]_vars

\* Two requests one tick apart, and then the one attempt they led to.
OneAutosaveTimerWitness ==
  /\ op = "autoSaveProject"
  /\ timersStarted = 2
  /\ lastRequest = 1
  /\ burst = 1
  /\ timers = {}

\* C13: loadAutosavedProject(callback) invokes its callback exactly once for each list it
\* receives: at once and with nothing else done when the list is empty; otherwise it
\* shows the overlay and loads the first autosave of the list, and when that has loaded
\* installs it with setupNewProject, hides the overlay and only then invokes the callback.
AutoloadCallsBack ==
  [][/\ op' = "loadAutosavedProject.listCallback" =>
          IF autosaveList' = <<>>
            THEN /\ effects' = <<Call("callback", "")>>
                 /\ UNCHANGED <<project, created, settings, numSelected, waitOverlay>>
                 /\ BagCardinality(pending') = BagCardinality(pending) - 1
            ELSE /\ Count(effects', "callback") = 0
                 /\ Count(effects', "showWaitOverlay") = 1
                 /\ waitOverlay'
                 /\ Count(effects', "AutoSave.load") = 1
                 /\ effects'[Index(effects', "AutoSave.load")].arg = autosaveList'[1]
                 /\ Index(effects', "showWaitOverlay") < Index(effects', "AutoSave.load")
                 /\ UNCHANGED <<project, created, settings, numSelected>>
                 /\ \E rec \in BagToSet(pending') :
                      /\ rec.cb = "AutoSave.load"
                      /\ rec.name = autosaveList'[1]
                      /\ pending' = (pending (-) SetToBag({fired'})) (+) SetToBag({rec})
     /\ op' = "loadAutosavedProject.loadCallback" =>
          /\ Count(effects', "callback") = 1
          /\ effects'[Len(effects')].call = "callback"
          /\ effects'[Len(effects') - 1].call = "hideWaitOverlay"
          /\ Count(effects', "resetEditorForLoad") = 1
          /\ Index(effects', "projectDidChange") < Len(effects') - 1
          /\ project' # project
          /\ given' # 0 => project' = given'
          /\ ~waitOverlay'
          /\ pending' = pending (-) SetToBag({fired'})
    ]_vars

\* The first of two stored autosaves was loaded and installed.
AutoloadCallsBackWitness ==
  /\ op = "loadAutosavedProject.loadCallback"
  /\ autosaveList = <<"u2", "u1">>
  /\ input = "u2"
  /\ given = project
  /\ project = created
  /\ ~waitOverlay

\* ================================================================ work in flight
\* while the project is replaced
\* The files a user may drop: by name and MIME type.
DroppedFiles == {[name |-> "a.gif", type |-> "image/gif"],
                 [name |-> "a.png", type |-> "image/png"]}
AcceptedFiles == UNION {[1..n -> DroppedFiles] : n \in 0..MaxArrLen}
RejectedCounts == {0, 1}

\* What createAssets does with one accepted file, and the callback that leaves in flight.
AssetCall(file) ==
  IF file.type = "image/gif"
    THEN CallOn("GIFImport.importGIFIntoProject", file.name, project)
    ELSE CallOn("project.importFile", file.name, project)
AssetCallback(file) ==
  IF file.type = "image/gif"
    THEN Callback("GIFImport", project, file.name, FALSE)
    ELSE Callback("importFile", project, file.name, FALSE)

\* createAssets(acceptedFiles, rejectedFiles)
createAssets(acceptedFiles, rejected) ==
  /\ BagCardinality(pending) + Len(acceptedFiles) <= MaxPending
  /\ LET n == Len(acceptedFiles)
         recs == {AssetCallback(acceptedFiles[i]) : i \in 1..n}
     IN pending' = pending (+)
          [r \in recs |-> Cardinality({i \in 1..n : AssetCallback(acceptedFiles[i]) = r})]
  /\ Ran("createAssets", "",
         toast("Importing files...", "info")
         \o (IF rejected > 0 THEN updateToast("error") ELSE <<>>)
         \o [i \in 1..Len(acceptedFiles) |-> AssetCall(acceptedFiles[i])], "undefined")
  /\ UNCHANGED <<fired, uiVars, editVars>>

\* onProgress handed to GIFImport.importGIFIntoProject
gifImportOnProgress(rec) ==
  /\ rec.cb = "GIFImport"
  /\ BagIn(rec, pending)
  /\ fired' = rec
  /\ Ran("createAssets.onProgress", rec.name, <<Call("console.log", "")>>, "undefined")
  /\ UNCHANGED <<pending, uiVars, editVars>>

\* onFinish handed to GIFImport.importGIFIntoProject
gifImportOnFinish(rec) ==
  /\ rec.cb = "GIFImport"
  /\ Fire(rec)
  /\ Ran("createAssets.onFinish", rec.name,
         <<Call("console.log", ""), Call("console.log", "")>>
         \o <<CallOn("project.addAsset", rec.name, project)>>
         \o projectDidChange(Options("Add Asset", FALSE)), "undefined")
  /\ UNCHANGED <<uiVars, editVars>>

NextReplace ==
  \/ \E a \in AcceptedFiles, r \in RejectedCounts : createAssets(a, r)
  \/ \E rec \in BagToSet(pending) : gifImportOnProgress(rec)
  \/ \E rec \in BagToSet(pending) : gifImportOnFinish(rec)
  \/ \E rec \in BagToSet(pending), a \in ImportResults : importFileCallback(rec, a)
  \/ exportProjectAsWickFile
  \/ \E rec \in BagToSet(pending), f \in FileResults : toWickFileCallback(rec, f)
  \/ exportProjectAsImageSequence
  \/ \E rec \in BagToSet(pending) : imageSequenceOnFinish(rec)
  \/ \E rec \in BagToSet(pending) : imageSequenceOnError(rec)
  \/ exportProjectAsImageSVG
  \/ \E rec \in BagToSet(pending) : svgOnFinish(rec)
  \/ \E rec \in BagToSet(pending) : svgOnError(rec)
  \/ \E f \in {"a.wick"} : importProjectAsWickFile(f)
  \/ \E rec \in BagToSet(pending), l \in BOOLEAN, n \in LoadedNames, k \in LoadedSelections :
       importProjectCallback(rec, l, n, k)

SpecReplace == InitAsync /\ [][NextReplace]_vars

\* A file has just been saved by the completion of a .wick, image-sequence or SVG export.
FileSaved ==
  /\ op \in {"exportProjectAsWickFile.callback", "exportProjectAsImageSequence.onFinish",
              "exportProjectAsImageSVG.onFinish"}
  /\ Count(effects, "saveAs") = 1

\* C15: an asynchronous import or export acts on the project it was started for, under
\* every interleaving with a project replacement that happens before its callback fires:
\* a GIF asset imported for project P is added to P, and a .wick, image-sequence or SVG
\* file produced from P is saved under P's name.
ActsOnStartingProject ==
  /\ op = "createAssets.onFinish" =>
       effects[Index(effects, "project.addAsset")].target = fired.p
  /\ FileSaved => effects[Index(effects, "saveAs")].arg = settings[fired.p].name

====
